---- MODULE Spec2Model ----
(***************************************************************************)
(* A model of btu_py: the dispatcher that enqueues an existing RQ job      *)
(* (btu_rq.py), the cron normalizer (btu_cron.py, CronStruct) and the cron *)
(* evaluator (btu_cron.py, tz_cron_to_utc_datetimes).                      *)
(*                                                                         *)
(* Three specifications share the module:                                  *)
(*   Spec      the dispatcher against the key-value store, with a worker   *)
(*             polling the queues;                                         *)
(*   SpecCron  the cron normalizer applied to bounded input strings;       *)
(*   SpecEval  the cron evaluator applied to bounded schedule queries.     *)
(***************************************************************************)
EXTENDS Integers, Sequences, FiniteSets, TLC

VARIABLES
    \* ---- key-value store (Redis) ----
    jobs,         \* hash 'rq:job:<id>': job id -> origin, or NoJob
    queues,       \* the set 'rq:queues' of known queue keys
    qlist,        \* queue key -> the list 'rq:queue:<origin>' of job ids
    \* ---- one call of DEL_enqueue_job_immediate ----
    pc,           \* position of the dispatcher inside the call
    cur,          \* existing_job_id of the call
    queue_key,    \* local queue_key of the call
    some_result,  \* local some_result (reply of sadd), Unset before the write
    push_result,  \* local push_result (reply of rpush), Unset before the write
    outcome,      \* how the call ended
    sadd_calls,   \* number of sadd commands issued by the call
    rpush_calls,  \* number of rpush commands issued by the call
    pre_queues,   \* 'rq:queues' as it was when the call started
    pre_list,     \* the queue's list as it was when rpush was issued
    faults,       \* number of writes of the call the store did not perform
    calls         \* number of calls made so far

rqvars == <<jobs, queues, qlist, pc, cur, queue_key, some_result, push_result,
            outcome, sadd_calls, rpush_calls, pre_queues, pre_list, faults,
            calls>>

(***************************************************************************)
(* Bounds                                                                  *)
(***************************************************************************)
MaxCalls == 3

(***************************************************************************)
(* The store's contents and the dispatcher                                 *)
(***************************************************************************)
NoJob == "NoJob"
Unset == -1

JobIds == {"j1", "j2", "j3", "ghost"}
Origins == {"default", "high"}

\* queue_key: str = f"rq:queue:{this_job.origin}"
QueueKeyDefault(origin) == <<"rq:queue", "default">>
QueueKey(origin) == <<"rq:queue", origin>>
QueueKeys == {<<"rq:queue", o>> : o \in Origins}

Range(s) == {s[i] : i \in 1..Len(s)}

\* The job hashes already persisted in the store when the dispatcher runs.
PersistedJobs ==
    [j \in JobIds |->
        CASE j = "j1" -> "default"
          [] j = "j2" -> "default"
          [] j = "j3" -> "high"
          [] OTHER -> NoJob]

\* redis SADD key member: the number of members newly added, the member being
\* in the set afterwards. A store that does not perform the write acknowledges
\* nothing (0) and leaves the set as it was.
StoreSadd(set, member, performed) ==
    IF performed
    THEN [reply |-> IF member \in set THEN 0 ELSE 1, set |-> set \cup {member}]
    ELSE [reply |-> 0, set |-> set]

\* redis RPUSH key value: the value is appended at the tail and the reply is
\* the length of the list after the push. A store that does not perform the
\* write acknowledges nothing (0) and leaves the list as it was.
StoreRpush(list, value, performed) ==
    IF performed
    THEN [reply |-> Len(list) + 1, list |-> Append(list, value)]
    ELSE [reply |-> 0, list |-> list]

\* if not some_result: ... raise IOError(some_result)
SaddFailedNever(result) == FALSE
SaddFailed(result) == result = 0

\* if not push_result: raise IOError(push_result)
PushFailedNever(result) == FALSE
PushFailed(result) == result = 0

\* get_logger.info(...): get_logger is the function imported from btu_py (it
\* is called, get_logger(), everywhere else); a function object has no
\* attribute 'info', so the statement raises AttributeError.
LogEnqueued == "AttributeError"

RQInit ==
    /\ jobs = PersistedJobs
    /\ queues = {}
    /\ qlist = [k \in QueueKeys |-> <<>>]
    /\ pc = "idle"
    /\ cur = "none"
    /\ queue_key = <<>>
    /\ some_result = Unset
    /\ push_result = Unset
    /\ outcome = "none"
    /\ sadd_calls = 0
    /\ rpush_calls = 0
    /\ pre_queues = {}
    /\ pre_list = <<>>
    /\ faults = 0
    /\ calls = 0

\* DEL_enqueue_job_immediate(existing_job_id), up to the fetch of the job:
\* rq.job.Job.fetch raises NoSuchJobError for an id with no hash.
Call(id) ==
    /\ pc = "idle"
    /\ calls < MaxCalls
    /\ calls' = calls + 1
    /\ cur' = id
    /\ some_result' = Unset
    /\ push_result' = Unset
    /\ sadd_calls' = 0
    /\ rpush_calls' = 0
    /\ pre_queues' = queues
    /\ pre_list' = <<>>
    /\ faults' = 0
    /\ IF jobs[id] = NoJob
       THEN /\ pc' = "idle"
            /\ outcome' = "NoSuchJobError"
            /\ queue_key' = <<>>
       ELSE /\ pc' = "sadd"
            /\ outcome' = "running"
            /\ queue_key' = QueueKey(jobs[id])
    /\ UNCHANGED <<jobs, queues, qlist>>

\* some_result = redis_conn.sadd("rq:queues", queue_key), and the check of it.
Sadd ==
    /\ pc = "sadd"
    /\ \E performed \in BOOLEAN :
        LET r == StoreSadd(queues, queue_key, performed) IN
        /\ queues' = r.set
        /\ some_result' = r.reply
        /\ sadd_calls' = sadd_calls + 1
        /\ faults' = IF performed THEN faults ELSE faults + 1
        /\ IF SaddFailed(r.reply)
           THEN /\ pc' = "idle"
                /\ outcome' = "IOError"
           ELSE /\ pc' = "rpush"
                /\ outcome' = outcome
    /\ UNCHANGED <<jobs, qlist, cur, queue_key, push_result, rpush_calls,
                   pre_queues, pre_list, calls>>

\* push_result = redis_conn.rpush(queue_key, existing_job_id), the check of
\* it, and the closing log statement.
Rpush ==
    /\ pc = "rpush"
    /\ \E performed \in BOOLEAN :
        LET r == StoreRpush(qlist[queue_key], cur, performed) IN
        /\ qlist' = [qlist EXCEPT ![queue_key] = r.list]
        /\ push_result' = r.reply
        /\ rpush_calls' = rpush_calls + 1
        /\ pre_list' = qlist[queue_key]
        /\ faults' = IF performed THEN faults ELSE faults + 1
        /\ pc' = "idle"
        /\ outcome' = IF PushFailed(r.reply) THEN "IOError" ELSE LogEnqueued
    /\ UNCHANGED <<jobs, queues, cur, queue_key, some_result, sadd_calls,
                   pre_queues, calls>>

\* A worker polling a queue takes the job id at the head of its list.
Consume(k) ==
    /\ qlist[k] # <<>>
    /\ qlist' = [qlist EXCEPT ![k] = Tail(qlist[k])]
    /\ UNCHANGED <<jobs, queues, pc, cur, queue_key, some_result, push_result,
                   outcome, sadd_calls, rpush_calls, pre_queues, pre_list,
                   faults, calls>>

(***************************************************************************)
(* The cron normalizer (btu_cron.py)                                       *)
(*                                                                         *)
(* A string is a sequence of one-character strings. A field of a           *)
(* CronStruct is a string or None.                                         *)
(***************************************************************************)
VARIABLES
    cron_string,   \* the raw cron expression handed to CronStruct.from_string
    cron_phase,    \* "input", "parsed", "rendered", "reparsed" or "error"
    cron_struct,   \* result of CronStruct.from_string(cron_string)
    cron_string7,  \* cron_struct.to_string7()
    cron_string5,  \* cron_struct.to_string()
    cron_struct2   \* CronStruct.from_string(cron_string7)

cronvars == <<cron_string, cron_phase, cron_struct, cron_string7, cron_string5,
              cron_struct2>>

MaxTokens == 8

None == <<"None">>
Space == " "
Star == <<"*">>

\* str.strip(): the string without its leading and trailing whitespace.
RECURSIVE LStrip(_)
LStrip(s) == IF s # <<>> /\ Head(s) = Space THEN LStrip(Tail(s)) ELSE s

RECURSIVE RStrip(_)
RStrip(s) ==
    IF s # <<>> /\ s[Len(s)] = Space THEN RStrip(SubSeq(s, 1, Len(s) - 1)) ELSE s

Strip(s) == RStrip(LStrip(s))

\* str.split(" "): the pieces between single spaces, empty pieces included;
\* the empty string splits into one empty piece.
SplitSpace(s) ==
    LET F[i \in 0..Len(s)] ==
            IF i = 0 THEN << <<>> >>
            ELSE IF s[i] = Space THEN Append(F[i - 1], <<>>)
                 ELSE [F[i - 1] EXCEPT ![Len(F[i - 1])] = Append(@, s[i])]
    IN F[Len(s)]

\* " ".join(pieces), as the format strings of to_string and to_string7 do.
RECURSIVE JoinSpace(_)
JoinSpace(pieces) ==
    IF pieces = <<>> THEN <<>>
    ELSE IF Len(pieces) = 1 THEN pieces[1]
         ELSE pieces[1] \o <<Space>> \o JoinSpace(Tail(pieces))

\* cron_str_to_cron_str7: the 7-element expression, or the ValueError that
\* reports len(cron_elements).
ElementCountOk(n) == n \in {5, 6, 7}

cron_str_to_cron_str7(cron_expression_string) ==
    LET cron_elements == SplitSpace(Strip(cron_expression_string))
        n == Len(cron_elements)
    IN  IF ~ElementCountOk(n)
        THEN [ok |-> FALSE, reported |-> n, value |-> <<>>]
        ELSE [ok |-> TRUE, reported |-> n,
              value |-> CASE n = 5 -> <<"0", Space>> \o cron_expression_string
                                          \o <<Space, "*">>
                          [] n = 6 -> <<"0", Space>> \o cron_expression_string
                          [] OTHER -> cron_expression_string]

\* nonwildcard_or_none: None if element == "*" else element
nonwildcard_or_none(element) == IF element = Star THEN None ELSE element

\* value_or_wildcard: value if value else '*' (None and '' are falsy)
value_or_wildcard(value) == IF value = None \/ value = <<>> THEN Star ELSE value

NoStruct ==
    [ok |-> FALSE, reported |-> 0, second |-> None, minute |-> None,
     hour |-> None, day_of_month |-> None, month |-> None,
     day_of_week |-> None, year |-> None]

\* CronStruct.from_string
from_string(s) ==
    LET cron7_expression == cron_str_to_cron_str7(s) IN
    IF ~cron7_expression.ok
    THEN [NoStruct EXCEPT !.reported = cron7_expression.reported]
    ELSE LET vector_cron7 == SplitSpace(cron7_expression.value) IN
         [ok |-> TRUE,
          reported |-> cron7_expression.reported,
          second |-> nonwildcard_or_none(vector_cron7[1]),
          minute |-> nonwildcard_or_none(vector_cron7[2]),
          hour |-> nonwildcard_or_none(vector_cron7[3]),
          day_of_month |-> nonwildcard_or_none(vector_cron7[4]),
          month |-> nonwildcard_or_none(vector_cron7[5]),
          day_of_week |-> nonwildcard_or_none(vector_cron7[6]),
          year |-> nonwildcard_or_none(vector_cron7[7])]

\* CronStruct.to_string
to_string(cs) ==
    JoinSpace(<<value_or_wildcard(cs.minute), value_or_wildcard(cs.hour),
                value_or_wildcard(cs.day_of_month), value_or_wildcard(cs.month),
                value_or_wildcard(cs.day_of_week)>>)

\* CronStruct.to_string7
to_string7(cs) ==
    JoinSpace(<<value_or_wildcard(cs.second), value_or_wildcard(cs.minute),
                value_or_wildcard(cs.hour), value_or_wildcard(cs.day_of_month),
                value_or_wildcard(cs.month), value_or_wildcard(cs.day_of_week),
                value_or_wildcard(cs.year)>>)

\* The inputs: up to MaxTokens tokens, each "*" or "5", separated by single
\* spaces, with or without a leading space, a trailing space and a second
\* space after the first token.
Tokens == {Star, <<"5">>}

TokenSeqs == UNION {[1..n -> Tokens] : n \in 0..MaxTokens}

BuildInput(lead, toks, gap, trail) ==
    (IF lead THEN <<Space>> ELSE <<>>)
    \o (IF gap /\ Len(toks) >= 2
        THEN toks[1] \o <<Space, Space>> \o JoinSpace(Tail(toks))
        ELSE JoinSpace(toks))
    \o (IF trail THEN <<Space>> ELSE <<>>)

CronInputs ==
    {BuildInput(lead, toks, gap, trail) :
        lead \in BOOLEAN, toks \in TokenSeqs, gap \in BOOLEAN, trail \in BOOLEAN}

CronIdle ==
    /\ cron_string = <<>>
    /\ cron_phase = "off"
    /\ cron_struct = NoStruct
    /\ cron_string7 = <<>>
    /\ cron_string5 = <<>>
    /\ cron_struct2 = NoStruct

CronInit ==
    /\ cron_string \in CronInputs
    /\ cron_phase = "input"
    /\ cron_struct = NoStruct
    /\ cron_string7 = <<>>
    /\ cron_string5 = <<>>
    /\ cron_struct2 = NoStruct

\* cs = CronStruct.from_string(cron_string)
Parse ==
    /\ cron_phase = "input"
    /\ cron_struct' = from_string(cron_string)
    /\ cron_phase' = IF cron_struct'.ok THEN "parsed" ELSE "error"
    /\ UNCHANGED <<cron_string, cron_string7, cron_string5, cron_struct2>>

\* cs.to_string7() and cs.to_string()
Render ==
    /\ cron_phase = "parsed"
    /\ cron_string7' = to_string7(cron_struct)
    /\ cron_string5' = to_string(cron_struct)
    /\ cron_phase' = "rendered"
    /\ UNCHANGED <<cron_string, cron_struct, cron_struct2>>

\* CronStruct.from_string(cs.to_string7())
Reparse ==
    /\ cron_phase = "rendered"
    /\ cron_struct2' = from_string(cron_string7)
    /\ cron_phase' = "reparsed"
    /\ UNCHANGED <<cron_string, cron_struct, cron_string7, cron_string5>>

(***************************************************************************)
(* The cron evaluator (btu_cron.py, tz_cron_to_utc_datetimes)              *)
(*                                                                         *)
(* Time is counted in whole hours; hour 0 is 2025-03-08T00:00. A datetime  *)
(* is its wall-clock reading with the UTC offset of its zone, so the       *)
(* instant it names is wall - offset. The zone America/Los_Angeles enters  *)
(* daylight saving time on 2025-03-09 at 02:00 local.                      *)
(***************************************************************************)
VARIABLES
    ev_cron,       \* cron_expression_string / BtuTaskSchedule.cron_string
    ev_tz,         \* cron_timezone: a zone name, or "" for none
    ev_from,       \* from_utc_datetime: a datetime, None or another type
    ev_ref,        \* the reference instant the calculator was seeded with
    ev_count,      \* number_of_results
    ev_freq,       \* BtuTaskSchedule.run_frequency
    ev_phase,      \* "query", "called" or "done"
    ev_caller,     \* who called the evaluator
    ev_is_utc,     \* cron_is_utc
    ev_raw,        \* result_datetimes, as croniter produced them
    ev_result,     \* the list returned
    ev_localized,  \* whether the loop of scenario 3 produced the result
    ev_logged,     \* number of 'different days' debug messages
    ev_raised      \* the exception raised, or "none"

evalvars == <<ev_cron, ev_tz, ev_from, ev_ref, ev_count, ev_freq, ev_phase, ev_caller,
              ev_is_utc, ev_raw, ev_result, ev_localized, ev_logged, ev_raised>>

MaxFrom == 30
MaxCount == 2

Str(word) ==
    CASE word = "0  * * *" -> <<"0", Space, Space, "*", Space, "*", Space, "*">>
      [] word = "0 * * * *" ->
            <<"0", Space, "*", Space, "*", Space, "*", Space, "*">>
      [] word = "0 9 * * *" ->
            <<"0", Space, "9", Space, "*", Space, "*", Space, "*">>
      [] word = "0 23 * * *" ->
            <<"0", Space, "2", "3", Space, "*", Space, "*", Space, "*">>
      [] word = "0 0 9 * * * *" ->
            <<"0", Space, "0", Space, "9", Space, "*", Space, "*", Space, "*",
              Space, "*">>
      [] word = "0 9 * *" -> <<"0", Space, "9", Space, "*", Space, "*">>

EvalCrons ==
    {Str(w) : w \in {"0  * * *", "0 * * * *", "0 9 * * *", "0 23 * * *",
                     "0 0 9 * * * *", "0 9 * *"}}

Zones == {"UTC", "America/Los_Angeles", "Asia/Tokyo"}

\* btu_py.get_config().timezone(): ZoneInfo(self.data.time_zone_string)
ConfigTimezone == "America/Los_Angeles"

Aware(wall, offset) == [wall |-> wall, offset |-> offset]

\* ZoneInfo.utcoffset for a wall-clock reading in the zone (a reading inside
\* the skipped hour takes the offset in force before the transition).
UtcOffset(zone, wall) ==
    CASE zone = "UTC" -> 0
      [] zone = "America/Los_Angeles" -> IF wall < 27 THEN 0 - 8 ELSE 0 - 7
      [] zone = "Asia/Tokyo" -> 9

Digit(c) ==
    CASE c = "0" -> 0 [] c = "1" -> 1 [] c = "2" -> 2 [] c = "3" -> 3
      [] c = "4" -> 4 [] c = "5" -> 5 [] c = "6" -> 6 [] c = "7" -> 7
      [] c = "8" -> 8 [] c = "9" -> 9

RECURSIVE ToInt(_)
ToInt(s) ==
    IF s = <<>> THEN 0
    ELSE ToInt(SubSeq(s, 1, Len(s) - 1)) * 10 + Digit(s[Len(s)])

\* croniter on a 5-field expression "0 H * * *" with hour field H: the hours
\* of the day that match, on the UTC clock.
CronMatches(hour_field, t) == hour_field = Star \/ ToInt(hour_field) = t % 24

\* iterator.get_next(DateTimeType): the first match after the current time.
croniter_get_next(hour_field, t) ==
    CHOOSE u \in (t + 1)..(t + 24) :
        /\ CronMatches(hour_field, u)
        /\ \A v \in (t + 1)..(u - 1) : ~CronMatches(hour_field, v)

RECURSIVE croniter_results(_, _, _)
croniter_results(hour_field, t, n) ==
    IF n = 0 THEN <<>>
    ELSE LET u == croniter_get_next(hour_field, t) IN
         <<Aware(u, 0)>> \o croniter_results(hour_field, u, n - 1)

\* iterator = croniter(expr5, from_utc_datetime)
\* [ iterator.get_next(DateTimeType) for each in range(number_of_results) ]
result_datetimes(expr5, t, n) == croniter_results(SplitSpace(expr5)[2], t, n)

\* make_datetime_naive: the wall-clock reading without its zone
make_datetime_naive(dt) == dt.wall

\* localize_datetime: the same wall-clock reading, in the zone given
localize_datetime(naive, zone) == Aware(naive, UtcOffset(zone, naive))

\* tz_aware.astimezone(ZoneInfo('UTC'))
astimezone_utc_wrong_sign(dt) == Aware(dt.wall + dt.offset, 0)
astimezone_utc(dt) == Aware(dt.wall - dt.offset, 0)

\* utc_datetime.date().day
DayOf(dt) == dt.wall \div 24

\* Scenario 1 (hour is None or "*") and scenario 2 (cron_is_utc): the croniter
\* results are returned as they are.
ReturnsUnmodifiedNotForUtc(hour, cron_is_utc) == hour = None \/ hour = Star
ReturnsUnmodified(hour, cron_is_utc) ==
    hour = None \/ hour = Star \/ cron_is_utc

\* The loop of scenario 3.
modified_results(results, zone) ==
    [i \in 1..Len(results) |->
        astimezone_utc(localize_datetime(make_datetime_naive(results[i]), zone))]

DayChanges(results, modified) ==
    Cardinality({i \in 1..Len(results) : DayOf(results[i]) # DayOf(modified[i])})

NoDatetime == [kind |-> "None", t |-> 0]
NotADatetime == [kind |-> "str", t |-> 0]
Datetime(t) == [kind |-> "datetime", t |-> t]

EvalIdle ==
    /\ ev_cron = <<>>
    /\ ev_tz = ""
    /\ ev_from = NoDatetime
    /\ ev_ref = 0
    /\ ev_count = 0
    /\ ev_freq = ""
    /\ ev_phase = "off"
    /\ ev_caller = "none"
    /\ ev_is_utc = FALSE
    /\ ev_raw = <<>>
    /\ ev_result = <<>>
    /\ ev_localized = FALSE
    /\ ev_logged = 0
    /\ ev_raised = "none"

EvalInit ==
    /\ ev_cron \in EvalCrons
    /\ ev_tz \in Zones \cup {""}
    /\ ev_from \in {Datetime(t) : t \in 0..MaxFrom} \cup {NoDatetime, NotADatetime}
    /\ ev_ref = 0
    /\ ev_count \in 1..MaxCount
    /\ ev_freq \in {"Cron Style", "Daily"}
    /\ ev_phase = "query"
    /\ ev_caller = "none"
    /\ ev_is_utc = FALSE
    /\ ev_raw = <<>>
    /\ ev_result = <<>>
    /\ ev_localized = FALSE
    /\ ev_logged = 0
    /\ ev_raised = "none"

\* BtuTaskSchedule.get_next_runtimes, up to the call of the evaluator
GetNextRuntimes ==
    /\ ev_phase = "query"
    /\ ev_is_utc' = (ev_freq # "Cron Style")
    /\ ev_phase' = "called"
    /\ ev_caller' = "get_next_runtimes"
    /\ UNCHANGED <<ev_cron, ev_tz, ev_from, ev_ref, ev_count, ev_freq, ev_raw,
                   ev_result, ev_localized, ev_logged, ev_raised>>

\* A caller other than get_next_runtimes, passing cron_is_utc itself.
CallEvaluator(cron_is_utc) ==
    /\ ev_phase = "query"
    /\ ev_is_utc' = cron_is_utc
    /\ ev_phase' = "called"
    /\ ev_caller' = "other"
    /\ UNCHANGED <<ev_cron, ev_tz, ev_from, ev_ref, ev_count, ev_freq, ev_raw,
                   ev_result, ev_localized, ev_logged, ev_raised>>

\* DateTimeType.now(ZoneInfo('UTC')), read only when from_utc_datetime is None.
ClockReadings == IF ev_from.kind = "None" THEN 0..MaxFrom ELSE {0}

\* tz_cron_to_utc_datetimes; now is the reading of the clock used when
\* from_utc_datetime is None.
tz_cron_to_utc_datetimes(now) ==
    /\ ev_phase = "called"
    /\ ev_phase' = "done"
    /\ LET cron_timezone == IF ev_tz = "" THEN ConfigTimezone ELSE ev_tz
           from_utc_datetime ==
               IF ev_from.kind = "None" THEN Datetime(now) ELSE ev_from
           this_cronstruct == from_string(ev_cron)
           results ==
               result_datetimes(to_string(this_cronstruct), from_utc_datetime.t,
                                ev_count)
           modified == modified_results(results, cron_timezone)
       IN  IF from_utc_datetime.kind # "datetime"
           THEN /\ ev_raised' = "TypeError"
                /\ UNCHANGED <<ev_ref, ev_raw, ev_result, ev_localized,
                               ev_logged>>
           ELSE IF ~this_cronstruct.ok
           THEN /\ ev_raised' = "ValueError"
                /\ UNCHANGED <<ev_ref, ev_raw, ev_result, ev_localized,
                               ev_logged>>
           ELSE /\ ev_raised' = "none"
                /\ ev_ref' = from_utc_datetime.t
                /\ ev_raw' = results
                /\ IF ReturnsUnmodified(this_cronstruct.hour, ev_is_utc)
                   THEN /\ ev_result' = results
                        /\ ev_localized' = FALSE
                        /\ ev_logged' = 0
                   ELSE /\ ev_result' = modified
                        /\ ev_localized' = TRUE
                        /\ ev_logged' = DayChanges(results, modified)
    /\ UNCHANGED <<ev_cron, ev_tz, ev_from, ev_count, ev_freq, ev_caller,
                   ev_is_utc>>

(***************************************************************************)
(* The queue job record, its persistence and the connection handles        *)
(* (btu_rq.py RQJobWrapper, structs/__init__.py BtuTaskSchedule, sql.py)   *)
(***************************************************************************)
VARIABLES
    wrapped,            \* the RQJobWrapper the last constructor call returned
    hashes,             \* the store's job hashes: key -> (field -> value)
    uuids_used,         \* the values uuid.uuid4() has produced so far
    kv_handles,         \* the redis.StrictRedis objects built, in order
    kv_calls,           \* calls of create_connection / create_raw_connection
    kv_returned,        \* the handles those calls returned (index in kv_handles)
    database_instance,  \* sql.py's global _database_instance
    db_handles,         \* the Database objects built
    db_connected,       \* whether connect() on the instance has completed
    db_calls,           \* completed calls of get_database / sql.create_connection
    db_returned,        \* the handles those calls returned
    job_op,             \* the operation that ran last
    job_arg,            \* the schedule it was called on
    job_payload,        \* what the payload collaborator answered
    job_raised,         \* the exception that reached the caller
    job_kv_cmds,        \* commands the last operation sent to the store
    job_sql_cmds,       \* queries the last operation sent to the database
    pre,                \* snapshot taken when the last operation started
    job_ops             \* operations so far; also the reading of the clock

jobvars == <<wrapped, hashes, uuids_used, kv_handles, kv_calls, kv_returned,
             database_instance, db_handles, db_connected, db_calls,
             db_returned, job_op, job_arg, job_payload, job_raised,
             job_kv_cmds, job_sql_cmds, pre, job_ops>>

MaxJobOps == 4

\* _database_instance = None
NoDatabase == 0

UUIDs == {"u1", "u2", "u3"}

\* get_config_data().jobs_site_prefix
TenantPrefix == "erp.farmtopeople.com"

NoRecord == [kind |-> "none"]
NoSchedule == [id |-> "none"]

\* DateTimeType.now(ZoneInfo("UTC")) at clock reading t
Stamp(t) == <<"datetime", t>>

\* f"{get_config_data().jobs_site_prefix}|{uuid_string}"
JobKey(prefix, uuid_string) == <<prefix, "|", uuid_string>>

\* f"rq:job:{new_job_key}"
FullyQualifiedKey(new_job_key) == <<"rq:job:">> \o new_job_key

HashKeys == {FullyQualifiedKey(JobKey(TenantPrefix, u)) : u \in UUIDs}

\* A constructor that marks the record as already running.
new_with_defaults_started(uuid_string, now) ==
    [job_key |-> JobKey(TenantPrefix, uuid_string),
     fully_qualified_key |->
         FullyQualifiedKey(JobKey(TenantPrefix, uuid_string)),
     job_key_short |-> uuid_string,
     created_at |-> Stamp(now),
     description |-> "",
     data |-> None,
     ended_at |-> None,
     enqueued_at |-> None,
     exc_info |-> None,
     last_heartbeat |-> Stamp(now),
     meta |-> None,
     origin |-> "default",
     result_ttl |-> None,
     started_at |-> Stamp(now),
     status |-> "started",
     timeout |-> 3600,
     worker_name |-> "",
     rq_job_object |-> None]

\* RQJobWrapper.new_with_defaults()
new_with_defaults(uuid_string, now) ==
    [job_key |-> JobKey(TenantPrefix, uuid_string),
     fully_qualified_key |->
         FullyQualifiedKey(JobKey(TenantPrefix, uuid_string)),
     job_key_short |-> uuid_string,
     created_at |-> Stamp(now),
     description |-> "",
     data |-> None,
     ended_at |-> None,
     enqueued_at |-> None,
     exc_info |-> None,
     last_heartbeat |-> Stamp(now),
     meta |-> None,
     origin |-> "default",
     result_ttl |-> None,
     started_at |-> None,
     status |-> "queued",
     timeout |-> 3600,
     worker_name |-> "",
     rq_job_object |-> None]

\* Python's 'x or ""' on a field that is None or a value
OrEmpty(x) == IF x = None THEN "" ELSE x

\* datetime_to_rq_date_string
datetime_to_rq_date_string(some_datetime) == <<"rqdate", some_datetime[2]>>

\* values_dict of DEL_create_only
values_dict(self) ==
    [status |-> self.status,
     worker_name |-> self.worker_name,
     ended_at |-> OrEmpty(self.ended_at),
     result_ttl |-> OrEmpty(self.result_ttl),
     enqueued_at |-> OrEmpty(self.enqueued_at),
     last_heartbeat |->
         IF self.last_heartbeat # None
         THEN datetime_to_rq_date_string(self.last_heartbeat) ELSE "",
     origin |-> self.origin,
     description |-> self.description,
     started_at |-> OrEmpty(self.started_at),
     created_at |-> datetime_to_rq_date_string(self.created_at),
     timeout |-> self.timeout]

\* HMSET / HSET: the mapping's fields are set in the hash, the others stay
hmset(hash, mapping) ==
    [f \in (DOMAIN hash) \cup (DOMAIN mapping) |->
        IF f \in DOMAIN mapping THEN mapping[f] ELSE hash[f]]

EmptyHash == [f \in {} |-> ""]

\* def create_connection(): the keyword arguments the signature accepts
CreateConnectionParameters == {}

\* Calling create_connection with the keyword arguments kwargs binds
call_binds(kwargs) == kwargs \subseteq CreateConnectionParameters

\* btu_rq.create_connection(): a new redis.StrictRedis on every call
create_connection(handles) == Append(handles, "decode_responses")

\* btu_rq.create_raw_connection(): a new redis.StrictRedis on every call
create_raw_connection(handles) == Append(handles, "raw")

\* A get_database that builds a Database on every call.
get_database_always_new(instance, handles, connect_ok) ==
    [instance |-> handles + 1, handles |-> handles + 1, created |-> TRUE,
     raised |-> ~connect_ok]

\* sql.get_database(): the global is assigned before connect() is awaited, so
\* a failed connect() leaves the instance in place and no second Database is
\* ever built.
get_database(instance, handles, connect_ok) ==
    IF instance = NoDatabase
    THEN [instance |-> handles + 1, handles |-> handles + 1, created |-> TRUE,
          raised |-> ~connect_ok]
    ELSE [instance |-> instance, handles |-> handles, created |-> FALSE,
          raised |-> FALSE]

\* The rows of "tabBTU Task": task key -> max_task_duration
TaskTable == [t \in {"TASK-1", "TASK-2"} |->
                 IF t = "TASK-1" THEN 600 ELSE 7200]

\* fetch_one's answer when no row matches (Python's None, which is falsy)
NoRow == <<>>

\* sql.get_task_by_id: the row fetch_one found, or NoRow
get_task_by_id(task_id) ==
    IF task_id \in DOMAIN TaskTable
    THEN <<[task_key |-> task_id, max_task_duration |-> TaskTable[task_id]]>>
    ELSE NoRow

\* The schedules the conversion is called on; the last one names a task that
\* has no row.
Schedules ==
    {[id |-> "TS-1", task_key |-> "TASK-1", task_description |-> "ping",
      queue_name |-> "default"],
     [id |-> "TS-2", task_key |-> "TASK-2", task_description |-> "report",
      queue_name |-> "long"],
     [id |-> "TS-3", task_key |-> "TASK-9", task_description |-> "orphan",
      queue_name |-> "short"]}

\* The payload collaborator: bytes for (task key, schedule id), or a failure
PayloadReplies == {"bytes", "NotFound", "TransportError"}

get_pickled_function_from_web(task_key, task_schedule_id) ==
    <<"pickle", task_key, task_schedule_id>>

\* A conversion that leaves the record's origin at its default.
to_rq_job_wrapper_default_origin(wrapped_job, self, task, data) ==
    [wrapped_job EXCEPT !.description = self.task_description,
                        !.data = data,
                        !.timeout = task.max_task_duration]

\* BtuTaskSchedule.to_rq_job_wrapper: the assignments to the new record
to_rq_job_wrapper(wrapped_job, self, task, data) ==
    [wrapped_job EXCEPT !.description = self.task_description,
                        !.origin = self.queue_name,
                        !.data = data,
                        !.timeout = task.max_task_duration]

Snapshot == [hashes |-> hashes, uuids |-> uuids_used,
             kv |-> Len(kv_handles), db |-> db_handles]

JobIdle ==
    /\ wrapped = NoRecord
    /\ hashes = [k \in HashKeys |-> EmptyHash]
    /\ uuids_used = {}
    /\ kv_handles = <<>>
    /\ kv_calls = 0
    /\ kv_returned = {}
    /\ database_instance = NoDatabase
    /\ db_handles = 0
    /\ db_connected = FALSE
    /\ db_calls = 0
    /\ db_returned = {}
    /\ job_op = "none"
    /\ job_arg = NoSchedule
    /\ job_payload = None
    /\ job_raised = "none"
    /\ job_kv_cmds = 0
    /\ job_sql_cmds = 0
    /\ pre = [hashes |-> [k \in HashKeys |-> EmptyHash], uuids |-> {},
              kv |-> 0, db |-> 0]
    /\ job_ops = 0

JobInit == JobIdle

\* Every operation: one more step of the process, the snapshot is taken
Begin(op) ==
    /\ job_ops < MaxJobOps
    /\ job_ops' = job_ops + 1
    /\ job_op' = op
    /\ pre' = Snapshot

\* A direct call of RQJobWrapper.new_with_defaults()
NewWithDefaults ==
    /\ Begin("new_with_defaults")
    /\ \E uuid_string \in UUIDs \ uuids_used :
          /\ wrapped' = new_with_defaults(uuid_string, job_ops)
          /\ uuids_used' = uuids_used \cup {uuid_string}
    /\ job_raised' = "none"
    /\ job_arg' = NoSchedule
    /\ job_payload' = None
    /\ job_kv_cmds' = 0
    /\ job_sql_cmds' = 0
    /\ UNCHANGED <<hashes, kv_handles, kv_calls, kv_returned,
                   database_instance, db_handles, db_connected, db_calls,
                   db_returned>>

\* BtuTaskSchedule.to_rq_job_wrapper on the schedule self
ToRqJobWrapper(self, connect_ok, reply) ==
    /\ Begin("to_rq_job_wrapper")
    /\ job_arg' = self
    /\ job_kv_cmds' = 0
    /\ UNCHANGED <<hashes, kv_handles, kv_calls, kv_returned>>
    /\ \E uuid_string \in UUIDs \ uuids_used :
        LET wrapped_job == new_with_defaults(uuid_string, job_ops)
            db == get_database(database_instance, db_handles, connect_ok)
            connected == IF db.created THEN connect_ok ELSE db_connected
            task_data == get_task_by_id(self.task_key)
            data == get_pickled_function_from_web(self.task_key, self.id)
        IN  /\ uuids_used' = uuids_used \cup {uuid_string}
            /\ database_instance' = db.instance
            /\ db_handles' = db.handles
            /\ db_connected' = connected
            /\ db_calls' = IF db.raised THEN db_calls ELSE db_calls + 1
            /\ db_returned' = IF db.raised THEN db_returned
                              ELSE db_returned \cup {db.instance}
            /\ IF ~connected
               THEN \* connect() raised, or fetch_one ran on a handle that
                    \* never connected
                    /\ job_raised' = "DatabaseError"
                    /\ job_sql_cmds' = 0
                    /\ job_payload' = None
                    /\ wrapped' = NoRecord
               ELSE IF task_data = NoRow
               THEN /\ job_raised' = "IOError"
                    /\ job_sql_cmds' = 1
                    /\ job_payload' = None
                    /\ wrapped' = NoRecord
               ELSE IF reply # "bytes"
               THEN /\ job_raised' = reply
                    /\ job_sql_cmds' = 1
                    /\ job_payload' = <<reply>>
                    /\ wrapped' = NoRecord
               ELSE /\ job_raised' = "none"
                    /\ job_sql_cmds' = 1
                    /\ job_payload' = data
                    /\ wrapped' = to_rq_job_wrapper(wrapped_job, self,
                                                    task_data[1], data)

\* RQJobWrapper.DEL_create_only on the record the caller holds
DEL_create_only ==
    /\ Begin("DEL_create_only")
    /\ wrapped # NoRecord
    /\ LET self == wrapped
           redis_conn == Len(kv_handles) + 1
           written == [hashes EXCEPT ![self.fully_qualified_key] =
                           hmset(@, values_dict(self))]
       IN  IF call_binds({"decode_responses"})
           THEN /\ kv_handles' = create_connection(
                                     create_connection(kv_handles))
                /\ kv_calls' = kv_calls + 2
                /\ kv_returned' = kv_returned \cup {redis_conn, redis_conn + 1}
                /\ hashes' = [written EXCEPT ![self.fully_qualified_key] =
                                 hmset(@, [data |-> self.data])]
                /\ job_kv_cmds' = 2
                /\ job_raised' = IF self.meta # None THEN "AttributeError"
                                 ELSE "none"
           ELSE \* the call with decode_responses=False raises before it
                \* builds a connection; the first HMSET has been sent
                /\ kv_handles' = create_connection(kv_handles)
                /\ kv_calls' = kv_calls + 1
                /\ kv_returned' = kv_returned \cup {redis_conn}
                /\ hashes' = written
                /\ job_kv_cmds' = 1
                /\ job_raised' = "TypeError"
    /\ job_sql_cmds' = 0
    /\ UNCHANGED <<wrapped, uuids_used, database_instance, db_handles,
                   db_connected, db_calls, db_returned, job_arg, job_payload>>

\* A direct call of btu_rq.create_connection()
CreateConnection ==
    /\ Begin("create_connection")
    /\ kv_handles' = create_connection(kv_handles)
    /\ kv_calls' = kv_calls + 1
    /\ kv_returned' = kv_returned \cup {Len(kv_handles) + 1}
    /\ job_raised' = "none"
    /\ job_kv_cmds' = 0
    /\ job_sql_cmds' = 0
    /\ UNCHANGED <<wrapped, hashes, uuids_used, database_instance, db_handles,
                   db_connected, db_calls, db_returned, job_arg, job_payload>>

\* A direct call of btu_rq.create_raw_connection()
CreateRawConnection ==
    /\ Begin("create_raw_connection")
    /\ kv_handles' = create_raw_connection(kv_handles)
    /\ kv_calls' = kv_calls + 1
    /\ kv_returned' = kv_returned \cup {Len(kv_handles) + 1}
    /\ job_raised' = "none"
    /\ job_kv_cmds' = 0
    /\ job_sql_cmds' = 0
    /\ UNCHANGED <<wrapped, hashes, uuids_used, database_instance, db_handles,
                   db_connected, db_calls, db_returned, job_arg, job_payload>>

\* What a call of sql.get_database() does to the module's state
DatabaseCall(connect_ok) ==
    LET db == get_database(database_instance, db_handles, connect_ok)
    IN  /\ database_instance' = db.instance
        /\ db_handles' = db.handles
        /\ db_connected' = IF db.created THEN connect_ok ELSE db_connected
        /\ db_calls' = IF db.raised THEN db_calls ELSE db_calls + 1
        /\ db_returned' = IF db.raised THEN db_returned
                          ELSE db_returned \cup {db.instance}
        /\ job_raised' = IF db.raised THEN "DatabaseError" ELSE "none"
        /\ job_kv_cmds' = 0
        /\ job_sql_cmds' = 0
        /\ UNCHANGED <<wrapped, hashes, uuids_used, kv_handles, kv_calls,
                       kv_returned, job_arg, job_payload>>

\* A direct call of sql.get_database()
GetDatabase(connect_ok) ==
    /\ Begin("get_database")
    /\ DatabaseCall(connect_ok)

\* A direct call of sql.create_connection(), which awaits get_database()
SqlCreateConnection(connect_ok) ==
    /\ Begin("sql.create_connection")
    /\ DatabaseCall(connect_ok)

(***************************************************************************)
(* Specifications                                                          *)
(***************************************************************************)
vars == <<rqvars, cronvars, evalvars, jobvars>>

RQIdle ==
    /\ jobs = PersistedJobs
    /\ queues = {}
    /\ qlist = [k \in QueueKeys |-> <<>>]
    /\ pc = "off"
    /\ cur = "none"
    /\ queue_key = <<>>
    /\ some_result = Unset
    /\ push_result = Unset
    /\ outcome = "none"
    /\ sadd_calls = 0
    /\ rpush_calls = 0
    /\ pre_queues = {}
    /\ pre_list = <<>>
    /\ faults = 0
    /\ calls = 0

Init == RQInit /\ CronIdle /\ EvalIdle /\ JobIdle

Next ==
    \/ \E id \in JobIds : Call(id) /\ UNCHANGED <<cronvars, evalvars, jobvars>>
    \/ Sadd /\ UNCHANGED <<cronvars, evalvars, jobvars>>
    \/ Rpush /\ UNCHANGED <<cronvars, evalvars, jobvars>>
    \/ \E k \in QueueKeys : Consume(k) /\ UNCHANGED <<cronvars, evalvars, jobvars>>

Spec == Init /\ [][Next]_vars

InitCron == CronInit /\ RQIdle /\ EvalIdle /\ JobIdle

NextCron ==
    \/ Parse /\ UNCHANGED <<rqvars, evalvars, jobvars>>
    \/ Render /\ UNCHANGED <<rqvars, evalvars, jobvars>>
    \/ Reparse /\ UNCHANGED <<rqvars, evalvars, jobvars>>

SpecCron == InitCron /\ [][NextCron]_vars

InitEval == EvalInit /\ RQIdle /\ CronIdle /\ JobIdle

NextEval ==
    \/ GetNextRuntimes /\ UNCHANGED <<rqvars, cronvars, jobvars>>
    \/ \E b \in BOOLEAN : CallEvaluator(b) /\ UNCHANGED <<rqvars, cronvars, jobvars>>
    \/ \E now \in ClockReadings :
          tz_cron_to_utc_datetimes(now) /\ UNCHANGED <<rqvars, cronvars, jobvars>>

SpecEval == InitEval /\ [][NextEval]_vars

InitJob == JobInit /\ RQIdle /\ CronIdle /\ EvalIdle

NextJob ==
    \/ NewWithDefaults /\ UNCHANGED <<rqvars, cronvars, evalvars>>
    \/ \E self \in Schedules, connect_ok \in BOOLEAN, reply \in PayloadReplies :
          ToRqJobWrapper(self, connect_ok, reply)
              /\ UNCHANGED <<rqvars, cronvars, evalvars>>
    \/ DEL_create_only /\ UNCHANGED <<rqvars, cronvars, evalvars>>
    \/ CreateConnection /\ UNCHANGED <<rqvars, cronvars, evalvars>>
    \/ CreateRawConnection /\ UNCHANGED <<rqvars, cronvars, evalvars>>
    \/ \E connect_ok \in BOOLEAN :
          GetDatabase(connect_ok) /\ UNCHANGED <<rqvars, cronvars, evalvars>>
    \/ \E connect_ok \in BOOLEAN :
          SqlCreateConnection(connect_ok)
              /\ UNCHANGED <<rqvars, cronvars, evalvars>>

SpecJob == InitJob /\ [][NextJob]_vars

(***************************************************************************)
(* Claims about the dispatcher (checked under Spec)                        *)
(***************************************************************************)

\* A call on a persisted job id has returned to its caller.
Returned == pc = "idle" /\ outcome \in {"ok", "IOError", "AttributeError"}

\* The queue key of the job's origin, written out from the key layout
\* 'rq:queue:<origin>' rather than taken from the call's local.
OriginKey == <<"rq:queue", jobs[cur]>>

\* C1: enqueue-existing for a persisted job id whose queue key is already in
\* 'rq:queues', against a store that performs every write: the call succeeds,
\* 'rq:queues' is unchanged and the queue's list grows by exactly one element,
\* the job id.
C1_ExistingQueueEnqueueSucceeds ==
    (Returned /\ OriginKey \in pre_queues /\ faults = 0)
        => /\ outcome = "ok"
           /\ queues = pre_queues
           /\ rpush_calls = 1
           /\ push_result = Len(pre_list) + 1

\* C2: enqueue-existing for a persisted job id whose queue key is not yet in
\* 'rq:queues', both writes being acknowledged: 'rq:queues' has gained exactly
\* one member, that queue key, and the push leaves the job id at the tail of
\* the queue's list, the earlier elements unchanged and in the same order, and
\* every other list untouched.
C2_NewQueueRegisteredAndPushedAtTail ==
    [][(pc = "rpush" /\ OriginKey \notin pre_queues /\ push_result' > 0)
        => /\ queues' = pre_queues \cup {OriginKey}
           /\ Cardinality(queues') = Cardinality(pre_queues) + 1
           /\ qlist'[OriginKey] = Append(qlist[OriginKey], cur)
           /\ \A k \in QueueKeys \ {OriginKey} : qlist'[k] = qlist[k]]_vars

C2_Witness ==
    /\ Returned
    /\ OriginKey \notin pre_queues
    /\ OriginKey \in queues
    /\ some_result = 1
    /\ push_result = 1
    /\ qlist[OriginKey] = <<cur>>
    /\ pre_queues # {}

\* C3: a returned call failed with an I/O error exactly when one of its two
\* writes reported failure; each write was issued at most once; when both
\* writes were acknowledged the call returned success; and a call that
\* returned success pushed the job id onto the list.
C3_IOErrorIffWriteFailedElseSuccess ==
    Returned
        => /\ (outcome = "IOError") <=> (some_result = 0 \/ push_result = 0)
           /\ sadd_calls <= 1
           /\ rpush_calls <= 1
           /\ (some_result >= 1 /\ push_result >= 1) => outcome = "ok"
           /\ outcome = "ok" => (rpush_calls = 1 /\ push_result = Len(pre_list) + 1)

\* C4: a job id is never in a queue's list unless the queue's key is in
\* 'rq:queues', and a call issues the push only after a registration that was
\* acknowledged.
C4_NoIdInUnregisteredQueue ==
    /\ \A k \in QueueKeys : qlist[k] # <<>> => k \in queues
    /\ rpush_calls > 0 => (sadd_calls = 1 /\ some_result >= 1)
    /\ pc = "rpush" => (some_result >= 1 /\ OriginKey \in queues)

C4_Witness ==
    /\ \E k \in QueueKeys : qlist[k] # <<>> /\ k \in queues
    /\ Returned
    /\ outcome = "IOError"
    /\ some_result = 0
    /\ rpush_calls = 0
    /\ OriginKey \notin queues
    /\ qlist[OriginKey] = <<>>

\* C5: when the registration succeeded and the push reported failure, the
\* call raised an I/O error and rolled nothing back: the queue key is still
\* in 'rq:queues' and the list does not hold the job id.
C5_PushFailureNoRollback ==
    (Returned /\ some_result >= 1 /\ rpush_calls = 1 /\ push_result = 0)
        => /\ outcome = "IOError"
           /\ OriginKey \in queues
           /\ cur \notin Range(qlist[OriginKey])
           /\ queues = pre_queues \cup {OriginKey}

C5_Witness ==
    /\ Returned
    /\ some_result = 1
    /\ rpush_calls = 1
    /\ push_result = 0
    /\ outcome = "IOError"
    /\ OriginKey \in queues
    /\ OriginKey \notin pre_queues

(***************************************************************************)
(* Claims about the cron normalizer (checked under SpecCron)               *)
(***************************************************************************)

\* The space-separated tokens of a string: its maximal runs of characters
\* other than the space, in order.
RECURSIVE RunLen(_)
RunLen(s) == IF s = <<>> \/ Head(s) = Space THEN 0 ELSE 1 + RunLen(Tail(s))

RECURSIVE TokensOf(_)
TokensOf(s) ==
    IF s = <<>> THEN <<>>
    ELSE IF Head(s) = Space THEN TokensOf(Tail(s))
         ELSE <<SubSeq(s, 1, RunLen(s))>>
                  \o TokensOf(SubSeq(s, RunLen(s) + 1, Len(s)))

Fields(cs) ==
    <<cs.second, cs.minute, cs.hour, cs.day_of_month, cs.month,
      cs.day_of_week, cs.year>>

UnsetIfStar(t) == IF t = Star THEN None ELSE t
StarIfUnset(v) == IF v = None THEN Star ELSE v

\* C6: parsing succeeds if and only if the input has exactly 5, 6 or 7
\* space-separated tokens; for any other count it raises the validation
\* error, which reports the actual token count, and produces no CronStruct.
C6_ParseSucceedsIff567Tokens ==
    cron_phase \in {"parsed", "rendered", "reparsed", "error"}
        => LET n == Len(TokensOf(cron_string)) IN
           /\ cron_struct.ok <=> n \in {5, 6, 7}
           /\ ~cron_struct.ok
                => (cron_struct.reported = n /\ Fields(cron_struct) = Fields(NoStruct))

\* C7: for every input that parses, to_string7(from_string(s)) has exactly 7
\* space-separated tokens and parses again to a CronStruct that is field-wise
\* equal to from_string(s).
C7_RoundTrip ==
    cron_phase = "reparsed"
        => /\ Len(TokensOf(cron_string7)) = 7
           /\ Len(SplitSpace(cron_string7)) = 7
           /\ cron_struct2.ok
           /\ Fields(cron_struct2) = Fields(cron_struct)

\* C8: a 5-token input t1..t5 yields second '0', minute..day_of_week t1..t5
\* and year unset; a 6-token input yields the same with year t6; a 7-token
\* input maps its tokens in order to second..year; a token '*' is stored as
\* unset; to_string renders minute..day_of_week with '*' for unset fields.
C8_FieldAssignment ==
    cron_phase \in {"rendered", "reparsed"}
        => LET t == TokensOf(cron_string)
               n == Len(t)
               u(i) == UnsetIfStar(t[i])
           IN  /\ n = 5 => Fields(cron_struct)
                             = <<<<"0">>, u(1), u(2), u(3), u(4), u(5), None>>
               /\ n = 6 => Fields(cron_struct)
                             = <<<<"0">>, u(1), u(2), u(3), u(4), u(5), u(6)>>
               /\ n = 7 => Fields(cron_struct)
                             = <<u(1), u(2), u(3), u(4), u(5), u(6), u(7)>>
               /\ cron_string5
                    = JoinSpace(<<StarIfUnset(cron_struct.minute),
                                  StarIfUnset(cron_struct.hour),
                                  StarIfUnset(cron_struct.day_of_month),
                                  StarIfUnset(cron_struct.month),
                                  StarIfUnset(cron_struct.day_of_week)>>)

(***************************************************************************)
(* Claims about the cron evaluator (checked under SpecEval)                *)
(***************************************************************************)

\* The evaluator returned a list.
Evaluated == ev_phase = "done" /\ ev_raised = "none"

\* The hour field of the schedule, as normalized.
ScheduleHour == from_string(ev_cron).hour

EffectiveZone == IF ev_tz = "" THEN "America/Los_Angeles" ELSE ev_tz

\* C9: when the schedule's hour field is wildcard (unset), or cron_is_utc is
\* true, the list returned is the recurrence calculator's output, element
\* for element, whatever the timezone argument; the re-localization is
\* applied exactly when the hour field is set and cron_is_utc is false; and
\* get_next_runtimes passes cron_is_utc = (run_frequency # 'Cron Style').
C9_RawOutputWhenWildcardOrUtc ==
    /\ Evaluated
        => /\ (ScheduleHour = None \/ ev_is_utc) => ev_result = ev_raw
           /\ ev_localized <=> (ScheduleHour # None /\ ~ev_is_utc)
           /\ ev_caller = "get_next_runtimes"
                => (ev_is_utc <=> ev_freq # "Cron Style")

C9_Witness ==
    /\ Evaluated
    /\ ScheduleHour = <<"9">>
    /\ ev_is_utc
    /\ ev_caller = "get_next_runtimes"
    /\ EffectiveZone = "America/Los_Angeles"
    /\ ev_result = ev_raw
    /\ Len(ev_raw) = 2
    /\ ev_raw[1].wall % 24 = 9

\* C10: when the hour field is set and cron_is_utc is false, each instant
\* returned is the calculator's instant with its wall-clock reading taken as
\* a reading in the effective timezone and converted to UTC, which is the
\* calculator's instant minus the zone's UTC offset; for '0 9 * * *' in
\* America/Los_Angeles the UTC hour is 17 where the offset is -8 hours and 16
\* where it is -7 hours; a change of calendar day is logged and raises
\* nothing.
C10_LocalHourCorrection ==
    (ev_phase = "done" /\ ev_raised # "TypeError" /\ from_string(ev_cron).ok
       /\ ScheduleHour # None /\ ~ev_is_utc)
        => /\ ev_raised = "none"
           /\ Len(ev_result) = Len(ev_raw)
           /\ \A i \in 1..Len(ev_raw) :
                LET offset == UtcOffset(EffectiveZone, ev_raw[i].wall) IN
                /\ ev_raw[i].offset = 0
                /\ ev_result[i] = [wall |-> ev_raw[i].wall - offset, offset |-> 0]
                /\ (ev_cron = Str("0 9 * * *")
                      /\ EffectiveZone = "America/Los_Angeles")
                     => /\ offset \in {0 - 8, 0 - 7}
                        /\ offset = 0 - 8 => ev_result[i].wall % 24 = 17
                        /\ offset = 0 - 7 => ev_result[i].wall % 24 = 16
           /\ ev_logged
                = Cardinality({i \in 1..Len(ev_raw) :
                      ev_raw[i].wall \div 24 # ev_result[i].wall \div 24})

C10_Witness ==
    /\ Evaluated
    /\ ~ev_is_utc
    /\ ev_cron = Str("0 9 * * *")
    /\ ev_tz = "America/Los_Angeles"
    /\ Len(ev_result) = 2
    /\ ev_result[1].wall % 24 = 17
    /\ ev_result[2].wall % 24 = 16
    /\ ev_logged = 0

\* C11: the evaluator returns exactly number_of_results instants, strictly
\* increasing in time, every one of them later than the reference instant,
\* whichever of the three branches produced the list (stated for the cron
\* strings whose tokens are separated by single spaces).
C11_CountOrderedAfterReference ==
    (Evaluated /\ ev_cron = JoinSpace(TokensOf(ev_cron)))
        => /\ Len(ev_result) = ev_count
           /\ \A i \in 1..Len(ev_result) : ev_result[i].offset = 0
           /\ \A i \in 1..(Len(ev_result) - 1) :
                ev_result[i].wall < ev_result[i + 1].wall
           /\ \A i \in 1..Len(ev_result) : ev_result[i].wall > ev_ref

(***************************************************************************)
(* C16, about the cron normalizer (checked under SpecCron)                 *)
(***************************************************************************)

\* C16: for an input that parses, the elements counted and the elements
\* assigned to the fields are the same: the 7-element string has exactly 7
\* pieces between its spaces, no field holds an empty string, and the
\* CronStruct is the one its stripped form yields.
C16_PaddingDoesNotChangeTheStruct ==
    (cron_phase \in {"parsed", "rendered", "reparsed"}
       /\ Strip(cron_string) = JoinSpace(TokensOf(cron_string)))
        => /\ Len(SplitSpace(cron_str_to_cron_str7(cron_string).value)) = 7
           /\ \A i \in 1..7 : Fields(cron_struct)[i] # <<>>
           /\ Fields(cron_struct) = Fields(from_string(Strip(cron_string)))

(***************************************************************************)
(* Claims about the job record and the connection handles (under SpecJob)  *)
(***************************************************************************)

\* The last operation touched neither the store nor the database.
NoStoreIO ==
    /\ hashes = pre.hashes
    /\ Len(kv_handles) = pre.kv
    /\ db_handles = pre.db
    /\ job_kv_cmds = 0
    /\ job_sql_cmds = 0

\* C12: every record new_with_defaults() returns has status 'queued', timeout
\* 3600, started_at, ended_at and enqueued_at unset, job_key
\* '<tenant prefix>|<fresh uuid>' and fully_qualified_key 'rq:job:' followed by
\* job_key; the constructor does no store I/O; and 'queued' is the only status
\* a record of this system, in memory or written to the store, ever carries.
C12_DefaultsOfANewRecord ==
    /\ job_op = "new_with_defaults"
          => /\ wrapped # NoRecord
             /\ job_raised = "none"
             /\ wrapped.status = "queued"
             /\ wrapped.timeout = 3600
             /\ wrapped.started_at = <<"None">>
             /\ wrapped.ended_at = <<"None">>
             /\ wrapped.enqueued_at = <<"None">>
             /\ \E u \in UUIDs \ pre.uuids :
                   /\ wrapped.job_key = <<"erp.farmtopeople.com", "|", u>>
                   /\ wrapped.fully_qualified_key =
                          <<"rq:job:", "erp.farmtopeople.com", "|", u>>
             /\ NoStoreIO
    /\ wrapped # NoRecord => wrapped.status = "queued"
    /\ \A k \in HashKeys :
          "status" \in DOMAIN hashes[k] => hashes[k]["status"] = "queued"

\* A second record has been constructed after the first one was persisted.
C12_Witness ==
    /\ job_op = "new_with_defaults"
    /\ wrapped # NoRecord
    /\ pre.uuids # {}
    /\ \E k \in HashKeys : "status" \in DOMAIN hashes[k]

\* C13: across any sequence of operations at most one key-value store handle
\* and at most one relational store handle is ever created, each lazily on
\* first use, and every later create_connection / create_raw_connection /
\* get_database returns that same handle.
C13_OneHandlePerStore ==
    /\ Len(kv_handles) <= 1
    /\ Cardinality(kv_returned) <= 1
    /\ db_handles <= 1
    /\ Cardinality(db_returned) <= 1

\* C13, amended: at most one relational store handle is ever created, lazily
\* by the first get_database / sql.create_connection, and every such call that
\* returns gives back that handle; the key-value store functions
\* create_connection / create_raw_connection build a new handle on every call
\* and never return one they returned before.
C13_OneDatabaseHandleNewStoreHandlePerCall ==
    /\ db_handles <= 1
    /\ database_instance = db_handles
    /\ db_returned \subseteq {database_instance} \ {NoDatabase}
    /\ db_calls > 0 => db_returned = {1}
    /\ (job_ops = 0) => (db_handles = 0 /\ kv_handles = <<>>)
    /\ Len(kv_handles) = kv_calls
    /\ kv_returned = 1..kv_calls

\* Both stores have been asked for a handle at least twice.
C13_Witness ==
    /\ db_calls >= 2
    /\ kv_calls >= 2
    /\ job_op \in {"get_database", "sql.create_connection"}

\* The conversion ran to its end: the database was connected, the task row
\* was found and the payload collaborator answered with bytes.
ConversionSucceeds ==
    /\ db_connected
    /\ job_arg.task_key \in {"TASK-1", "TASK-2"}
    /\ job_payload = <<"pickle", job_arg.task_key, job_arg.id>>

\* C14: when to_rq_job_wrapper succeeds, the record's description is the
\* schedule's task description, its origin the schedule's queue name, its
\* timeout the task's max duration, its data the payload fetched for (task
\* key, schedule id), and its status is still 'queued'; when the task row is
\* missing or the payload retrieval fails, the error reaches the caller and no
\* record is returned; in every case nothing is written to the store.
C14_ScheduleToRecord ==
    job_op = "to_rq_job_wrapper"
        => /\ hashes = pre.hashes
           /\ Len(kv_handles) = pre.kv
           /\ job_kv_cmds = 0
           /\ IF ConversionSucceeds
              THEN /\ job_raised = "none"
                   /\ wrapped # NoRecord
                   /\ wrapped.description = job_arg.task_description
                   /\ wrapped.origin = job_arg.queue_name
                   /\ wrapped.timeout =
                          (IF job_arg.task_key = "TASK-1" THEN 600 ELSE 7200)
                   /\ wrapped.data =
                          <<"pickle", job_arg.task_key, job_arg.id>>
                   /\ wrapped.status = "queued"
              ELSE /\ wrapped = NoRecord
                   /\ job_raised # "none"
           /\ (db_connected /\ job_arg.task_key = "TASK-9")
                  => job_raised = "IOError"
           /\ job_payload \in {<<"NotFound">>, <<"TransportError">>}
                  => job_raised = job_payload[1]

\* A schedule of the queue 'long' has been converted while a job hash exists.
C14_Witness ==
    /\ job_op = "to_rq_job_wrapper"
    /\ ConversionSucceeds
    /\ job_arg.queue_name = "long"
    /\ \E k \in HashKeys : DOMAIN hashes[k] # {}

\* The conversion has failed for a missing task row and for a payload error.
C14_WitnessFailure ==
    /\ job_op = "to_rq_job_wrapper"
    /\ job_raised \in {"IOError", "TransportError"}

\* The fields DEL_create_only is to leave in the job's hash.
MetadataFields ==
    {"status", "worker_name", "ended_at", "result_ttl", "enqueued_at",
     "last_heartbeat", "origin", "description", "started_at", "created_at",
     "timeout"}

\* C15: DEL_create_only completes and leaves at 'rq:job:<prefix>|<uuid>' all
\* the metadata fields and the data field (and meta when the record has
\* metadata); the hash never has the metadata fields without the data field;
\* the known-queue set and the queue lists are not touched.
C15_CreateOnlyWritesMetadataAndData ==
    /\ job_op = "DEL_create_only"
          => /\ job_raised = "none"
             /\ wrapped.fully_qualified_key =
                    <<"rq:job:", "erp.farmtopeople.com", "|",
                      wrapped.job_key_short>>
             /\ (MetadataFields \cup {"data"})
                    \subseteq DOMAIN hashes[wrapped.fully_qualified_key]
             /\ wrapped.meta # <<"None">>
                    => "meta" \in DOMAIN hashes[wrapped.fully_qualified_key]
             /\ queues = {}
             /\ \A k \in QueueKeys : qlist[k] = <<>>
    /\ \A k \in HashKeys :
          MetadataFields \subseteq DOMAIN hashes[k]
              => "data" \in DOMAIN hashes[k]
====
